---------------------------- MODULE Spec2Model ----------------------------
(***************************************************************************)
(* Model of e3fp_paper/crossvalidation/util.py: the array builders, the    *)
(* fold splitter, the sparse array codec, the dict aggregation helpers and *)
(* the ROC metrics.                                                        *)
(*                                                                         *)
(* Every function of the module is a pure function of its arguments (the   *)
(* codec also of the archive file), so each specification draws a call     *)
(* (function name and arguments) in its initial states and one action per  *)
(* function applies the function as the code computes it.                  *)
(*                                                                         *)
(* Conventions:                                                            *)
(*  - a Python list is a TLA+ sequence; position p of the Python list is   *)
(*    element p + 1 of the sequence.  Index VALUES that the code stores    *)
(*    (row indices, column indices, indptr) are the Python 0-based values. *)
(*  - a Python dict is a function with a finite domain.                    *)
(*  - a raised exception is a result record [ok |-> FALSE, err |-> class]. *)
(***************************************************************************)
EXTENDS Integers, Sequences, FiniteSets

VARIABLES
    pc,       \* "call": the call has not run yet; "done": it has returned or raised
    fn,       \* name of the function being called
    args,     \* record of the call's arguments
    ret,      \* the value returned (or the exception raised), None before
    archive   \* contents of the .npz file written by save_fprints_arr, or NoFile

vars == <<pc, fn, args, ret, archive>>

None == "None"
NoFile == "NoFile"

Raise(cls) == [ok |-> FALSE, err |-> cls]

(***************************************************************************)
(* Generic helpers                                                         *)
(***************************************************************************)
Range(s) == {s[i] : i \in 1..Len(s)}

SeqsUpTo(S, n) == UNION {[1..k -> S] : k \in 0..n}

Dicts(K, V) == UNION {[D -> V] : D \in SUBSET K}

EmptyDict == [k \in {} |-> None]

(***************************************************************************)
(* merge_dicts                                                             *)
(***************************************************************************)
MaxDicts == 3
DictKeys == {"a", "b"}
DictVals == {1, 2, 3}

\* merged.setdefault(k, []).insert(0, v): the newest value first
setdefault_prepend(merged, k, v) ==
    IF k \in DOMAIN merged
    THEN [merged EXCEPT ![k] = <<v>> \o @]
    ELSE [x \in DOMAIN merged \cup {k} |-> IF x = k THEN <<v>> ELSE merged[x]]

\* merged.setdefault(k, []).append(v)
setdefault_append(merged, k, v) ==
    IF k \in DOMAIN merged
    THEN [merged EXCEPT ![k] = Append(@, v)]
    ELSE [x \in DOMAIN merged \cup {k} |-> IF x = k THEN <<v>> ELSE merged[x]]

\* for k, v in d.iteritems(): ... (the keys of one dict are distinct, so the
\* iteration order of the dict does not matter)
RECURSIVE merge_items(_, _, _)
merge_items(merged, d, ks) ==
    IF ks = {} THEN merged
    ELSE LET k == CHOOSE x \in ks : TRUE
         IN  merge_items(setdefault_append(merged, k, d[k]), d, ks \ {k})

\* for d in ds: ...
RECURSIVE merge_loop(_, _, _)
merge_loop(merged, ds, i) ==
    IF i > Len(ds) THEN merged
    ELSE merge_loop(merge_items(merged, ds[i], DOMAIN ds[i]), ds, i + 1)

merge_dicts(ds) == merge_loop(EmptyDict, ds, 1)

InitDicts ==
    /\ pc = "call"
    /\ fn = "merge_dicts"
    /\ args \in {[ds |-> ds] : ds \in SeqsUpTo(Dicts(DictKeys, DictVals), MaxDicts)}
    /\ ret = None
    /\ archive = NoFile

Call_merge_dicts ==
    /\ pc = "call"
    /\ fn = "merge_dicts"
    /\ ret' = merge_dicts(args.ds)
    /\ pc' = "done"
    /\ UNCHANGED <<fn, args, archive>>

NextDicts == Call_merge_dicts

SpecDicts == InitDicts /\ [][NextDicts]_vars

\* the positions of the input dicts that contain key k
Containing(ds, k) == {i \in 1..Len(ds) : k \in DOMAIN ds[i]}

\* the n-th smallest element of the set of naturals S
Nth(S, n) == CHOOSE i \in S : Cardinality({j \in S : j < i}) = n - 1

\* C7: merge_dicts returns a mapping whose keys are the union of the inputs'
\* keys and whose value for k lists, in the order the inputs were passed, the
\* value of k in every input that contains k (one entry per such input).
C7_MergeDicts ==
    (fn = "merge_dicts" /\ pc = "done") =>
        /\ DOMAIN ret = UNION {DOMAIN args.ds[i] : i \in 1..Len(args.ds)}
        /\ \A k \in DOMAIN ret :
              /\ Len(ret[k]) = Cardinality(Containing(args.ds, k))
              /\ \A n \in 1..Len(ret[k]) :
                    ret[k][n] = args.ds[Nth(Containing(args.ds, k), n)][k]

\* a merge where a key is in the first and last dict with different values and
\* missing from the one between, and another key is in one dict only
C7_Witness ==
    /\ fn = "merge_dicts" /\ pc = "done"
    /\ Len(args.ds) = 3
    /\ DOMAIN args.ds[1] = {"a", "b"}
    /\ DOMAIN args.ds[2] = {}
    /\ DOMAIN args.ds[3] = {"a"}
    /\ args.ds[1]["a"] # args.ds[3]["a"]
    /\ ret["a"] = <<args.ds[1]["a"], args.ds[3]["a"]>>

(***************************************************************************)
(* ROC curves.  A rate is a natural k standing for the fraction            *)
(* k / RateDen, so rates range over 0..RateDen and a difference of two     *)
(* rates over -RateDen..RateDen.                                           *)
(***************************************************************************)
RateDen == 3
MaxPoints == 3
Rates == 0..RateDen

IsSorted(a) == \A i \in 1..Len(a) - 1 : a[i] <= a[i + 1]

\* equal-length pairs of arrays
CurvePairs(S, T, lo) ==
    UNION {[fp : [1..n -> S], tp : [1..n -> T]] : n \in lo..MaxPoints}

(***************************************************************************)
(* get_youden, get_youden_index                                            *)
(***************************************************************************)
\* fp - tp: the operands swapped
get_youden_swapped(fp, tp) == [i \in 1..Len(fp) |-> fp[i] - tp[i]]

\* tp - fp, elementwise
get_youden(fp, tp) == [i \in 1..Len(fp) |-> tp[i] - fp[i]]

\* np.argmax: a scan that moves only to a strictly larger element, so the
\* first maximum is kept; the result is the 0-based index
RECURSIVE argmax_scan(_, _, _)
argmax_scan(a, i, best) ==
    IF i > Len(a) THEN best - 1
    ELSE argmax_scan(a, i + 1, IF a[i] > a[best] THEN i ELSE best)

argmax(a) == argmax_scan(a, 2, 1)

get_youden_index(fp, tp, return_coordinate) ==
    LET youden == get_youden(fp, tp)
    IN  IF Len(youden) = 0 THEN Raise("ValueError")   \* argmax of an empty array
        ELSE LET index == argmax(youden)
             IN  IF return_coordinate
                 THEN [ok |-> TRUE, value |-> youden[index + 1],
                       coordinate |-> <<fp[index + 1], tp[index + 1]>>]
                 ELSE [ok |-> TRUE, value |-> youden[index + 1]]

InitYouden ==
    /\ pc = "call"
    /\ fn = "get_youden_index"
    /\ args \in {[fp |-> c.fp, tp |-> c.tp, return_coordinate |-> b] :
                    c \in CurvePairs(Rates, Rates, 0), b \in BOOLEAN}
    /\ ret = None
    /\ archive = NoFile

Call_get_youden_index ==
    /\ pc = "call"
    /\ fn = "get_youden_index"
    /\ ret' = get_youden_index(args.fp, args.tp, args.return_coordinate)
    /\ pc' = "done"
    /\ UNCHANGED <<fn, args, archive>>

NextYouden == Call_get_youden_index

SpecYouden == InitYouden /\ [][NextYouden]_vars

\* the first index (1-based) where tp - fp is largest
FirstMaxIndex(fp, tp) ==
    CHOOSE i \in 1..Len(fp) :
        /\ \A j \in 1..Len(fp) : tp[j] - fp[j] <= tp[i] - fp[i]
        /\ \A j \in 1..(i - 1) : tp[j] - fp[j] < tp[i] - fp[i]

\* C8: for equal-length non-empty fpr and tpr with values in [0, 1],
\* get_youden_index returns the maximum of tpr[i] - fpr[i], a value in
\* [-1, 1]; with return_coordinate it also returns (fpr[i*], tpr[i*]) for the
\* first index i* attaining the maximum, so the coordinate's tpr - fpr equals
\* the returned index.
C8_YoudenIndex ==
    (fn = "get_youden_index" /\ pc = "done" /\ Len(args.fp) > 0) =>
        /\ ret.ok
        /\ \A j \in 1..Len(args.fp) : args.tp[j] - args.fp[j] <= ret.value
        /\ \E j \in 1..Len(args.fp) : args.tp[j] - args.fp[j] = ret.value
        /\ ret.value \in (0 - RateDen)..RateDen
        /\ args.return_coordinate =>
              LET i == FirstMaxIndex(args.fp, args.tp)
              IN  /\ ret.coordinate = <<args.fp[i], args.tp[i]>>
                  /\ ret.coordinate[2] - ret.coordinate[1] = ret.value
        /\ ~args.return_coordinate => DOMAIN ret = {"ok", "value"}

\* the maximum is attained twice, at different coordinates, and not at the
\* first point; the coordinate was asked for
C8_Witness ==
    /\ fn = "get_youden_index" /\ pc = "done"
    /\ args.return_coordinate
    /\ Len(args.fp) = 3
    /\ args.tp[2] - args.fp[2] = args.tp[3] - args.fp[3]
    /\ args.tp[1] - args.fp[1] < args.tp[2] - args.fp[2]
    /\ args.fp[2] # args.fp[3]
    /\ ret.ok /\ ret.coordinate = <<args.fp[2], args.tp[2]>>

(***************************************************************************)
(* get_logroc, get_logauc                                                  *)
(***************************************************************************)
\* np.searchsorted(a, v) (side='left'): binary search over 0-based positions
RECURSIVE bisect_left(_, _, _, _)
bisect_left(a, v, lo, hi) ==
    IF lo >= hi THEN lo
    ELSE LET mid == lo + (hi - lo) \div 2
         IN  IF a[mid + 1] < v THEN bisect_left(a, v, mid + 1, hi)
             ELSE bisect_left(a, v, lo, mid)

searchsorted(a, v) == bisect_left(a, v, 0, Len(a))

\* a[k:]
From(a, k) == SubSeq(a, k + 1, Len(a))

\* the truncation without the interpolated point
logauc_curve_noinsert(fp, tp, min_fp) ==
    LET lam_index == searchsorted(fp, min_fp)
    IN  [x |-> From(fp, lam_index), y |-> From(tp, lam_index)]

\* get_logauc, lines 277-282: the truncated curve
logauc_curve(fp, tp, min_fp) ==
    LET lam_index == searchsorted(fp, min_fp)
        y == From(tp, lam_index)
        x == From(fp, lam_index)
    IN  IF lam_index # 0
        THEN [x |-> <<min_fp>> \o x, y |-> <<tp[lam_index]>> \o y]
        ELSE [x |-> x, y |-> y]

\* get_logroc, lines 254-259: the same truncation
logroc_curve(fp, tp, min_fp) ==
    LET lam_index == searchsorted(fp, min_fp)
        y == From(tp, lam_index)
        x == From(fp, lam_index)
    IN  IF lam_index # 0
        THEN [x |-> <<min_fp>> \o x, y |-> <<tp[lam_index]>> \o y]
        ELSE [x |-> x, y |-> y]

\* get_logroc returns (log10(x), y).  The logarithm is not evaluated: the
\* result names the array x it is taken of.
get_logroc(fp, tp, min_fp) ==
    LET c == logroc_curve(fp, tp, min_fp)
    IN  [x |-> c.x, y |-> c.y, value |-> <<"log10", c.x, c.y>>]

\* get_logauc returns the sum of the log-trapezoid areas of the truncated
\* curve, divided by log10(1 / min_fp), minus 0.144620062 if adjusted.  The
\* transcendental arithmetic is not evaluated: the result names the curve, the
\* cutoff and the flag it is computed from.
get_logauc(fp, tp, min_fp, adjusted) ==
    LET c == logauc_curve(fp, tp, min_fp)
    IN  [x |-> c.x, y |-> c.y, value |-> <<"logauc", c.x, c.y, min_fp, adjusted>>]

SortedCurves == {c \in CurvePairs(Rates, Rates, 0) : IsSorted(c.fp)}

InitLog ==
    /\ pc = "call"
    /\ \/ /\ fn = "get_logroc"
          /\ args \in {[fp |-> c.fp, tp |-> c.tp, min_fp |-> m] :
                          c \in SortedCurves, m \in 1..RateDen}
       \/ /\ fn = "get_logauc"
          /\ args \in {[fp |-> c.fp, tp |-> c.tp, min_fp |-> m, adjusted |-> a] :
                          c \in SortedCurves, m \in 1..RateDen, a \in BOOLEAN}
    /\ ret = None
    /\ archive = NoFile

Call_get_logroc ==
    /\ pc = "call"
    /\ fn = "get_logroc"
    /\ ret' = get_logroc(args.fp, args.tp, args.min_fp)
    /\ pc' = "done"
    /\ UNCHANGED <<fn, args, archive>>

Call_get_logauc ==
    /\ pc = "call"
    /\ fn = "get_logauc"
    /\ ret' = get_logauc(args.fp, args.tp, args.min_fp, args.adjusted)
    /\ pc' = "done"
    /\ UNCHANGED <<fn, args, archive>>

NextLog == Call_get_logroc \/ Call_get_logauc

SpecLog == InitLog /\ [][NextLog]_vars

\* the leftmost insertion index of v into the non-decreasing array a
LeftInsertion(a, v) == Cardinality({i \in 1..Len(a) : a[i] < v})

\* C10: in get_logauc and get_logroc, for a non-decreasing fpr and cutoff
\* min_fp with leftmost insertion index k, the curve used is fpr[k:], tpr[k:]
\* with exactly one point (min_fp, tpr[k-1]) prepended if k > 0 and nothing
\* prepended if k = 0; so every x is >= min_fp, x stays non-decreasing and
\* for k > 0 the first x is min_fp.
C10_LogCurve ==
    (fn \in {"get_logroc", "get_logauc"} /\ pc = "done" /\ IsSorted(args.fp)) =>
        LET k == LeftInsertion(args.fp, args.min_fp)
        IN  /\ k > 0 => /\ ret.x = <<args.min_fp>> \o From(args.fp, k)
                        /\ ret.y = <<args.tp[k]>> \o From(args.tp, k)
                        /\ ret.x[1] = args.min_fp
            /\ k = 0 => /\ ret.x = args.fp
                        /\ ret.y = args.tp
            /\ \A i \in 1..Len(ret.x) : ret.x[i] >= args.min_fp
            /\ IsSorted(ret.x)

\* get_logauc on a curve with a point below the cutoff, a point exactly at
\* the cutoff and a point above it
C10_Witness ==
    /\ fn = "get_logauc" /\ pc = "done"
    /\ Len(args.fp) = 3
    /\ args.fp[1] < args.min_fp
    /\ args.fp[2] = args.min_fp
    /\ args.fp[3] > args.min_fp
    /\ args.tp[1] # args.tp[2]
    /\ Len(ret.x) = 3 /\ ret.y[1] = args.tp[1]

(***************************************************************************)
(* get_auc, get_roc_prc_auc                                                *)
(*                                                                         *)
(* Floating point values are exact fractions <<n, d>> in lowest terms with *)
(* d > 0; NaN is <<0, 0>>.  roc_curve, precision_recall_curve and auc are  *)
(* the scikit-learn routines the code calls, modelled as scikit-learn      *)
(* computes them, including the warnings they emit; warn() models the      *)
(* warnings filter the code installs.                                      *)
(***************************************************************************)
MaxSamples == 4
MaxScore == 3
Scores == 1..MaxScore

NaN == <<0, 0>>
IsNaN(r) == r[2] = 0
Abs(n) == IF n < 0 THEN 0 - n ELSE n

RECURSIVE Gcd(_, _)
Gcd(a, b) == IF b = 0 THEN a ELSE Gcd(b, a % b)

Rat(n, d) ==
    IF d = 0 THEN NaN
    ELSE LET g == Gcd(Abs(n), Abs(d))
             sgn == IF d < 0 THEN 0 - 1 ELSE 1
         IN  <<(sgn * n) \div g, (sgn * d) \div g>>

RAdd(a, b) == IF IsNaN(a) \/ IsNaN(b) THEN NaN
              ELSE Rat(a[1] * b[2] + b[1] * a[2], a[2] * b[2])
RSub(a, b) == IF IsNaN(a) \/ IsNaN(b) THEN NaN
              ELSE Rat(a[1] * b[2] - b[1] * a[2], a[2] * b[2])
RMul(a, b) == IF IsNaN(a) \/ IsNaN(b) THEN NaN
              ELSE Rat(a[1] * b[1], a[2] * b[2])
\* a comparison with NaN is false
RLt(a, b) == ~IsNaN(a) /\ ~IsNaN(b) /\ a[1] * b[2] < b[1] * a[2]
RLe(a, b) == ~IsNaN(a) /\ ~IsNaN(b) /\ a[1] * b[2] <= b[1] * a[2]
Zero == Rat(0, 1)

\* the elements of a finite set of integers, smallest first
RECURSIVE Ascending(_)
Ascending(S) ==
    IF S = {} THEN <<>>
    ELSE LET mn == CHOOSE x \in S : \A y \in S : x <= y
         IN  <<mn>> \o Ascending(S \ {mn})

\* the elements of a finite set of integers, largest first
RECURSIVE Descending(_)
Descending(S) ==
    IF S = {} THEN <<>>
    ELSE LET mx == CHOOSE x \in S : \A y \in S : y <= x
         IN  <<mx>> \o Descending(S \ {mx})

\* sklearn.metrics.ranking._binary_clf_curve: one point per distinct score,
\* scores decreasing; tps / fps count the positives / negatives scored at or
\* above the threshold
binary_clf_curve(y_true, y_score) ==
    LET thresholds == Descending(Range(y_score))
        n(label, t) == Cardinality({i \in 1..Len(y_true) :
                                       y_true[i] = label /\ y_score[i] >= t})
    IN  [fps |-> [k \in 1..Len(thresholds) |-> n(0, thresholds[k])],
         tps |-> [k \in 1..Len(thresholds) |-> n(1, thresholds[k])],
         thresholds |-> thresholds]

\* a[idxs] for a strictly increasing sequence idxs of 1-based positions
Take(a, idxs) == [k \in 1..Len(idxs) |-> a[idxs[k]]]

\* warnings.simplefilter("default"): a warning is printed and the call goes on
simplefilter_default == "default"

\* warnings.simplefilter("error") (lines 225 and 233): a warning is raised
simplefilter_action == "error"

\* sklearn.metrics.roc_curve(y_true, y_score, drop_intermediate=True)
roc_curve(y_true, y_score, filter) ==
    LET c0 == binary_clf_curve(y_true, y_score)
        n0 == Len(c0.fps)
        d2(a, i) == a[i + 1] - 2 * a[i] + a[i - 1]
        corner(i) == i = 1 \/ i = n0 \/ d2(c0.fps, i) # 0 \/ d2(c0.tps, i) # 0
        idxs == IF n0 > 2 THEN Ascending({i \in 1..n0 : corner(i)})
                ELSE [k \in 1..n0 |-> k]
        fps1 == Take(c0.fps, idxs)
        tps1 == Take(c0.tps, idxs)
        thr1 == Take(c0.thresholds, idxs)
        origin == Len(tps1) = 0 \/ fps1[1] # 0
        fps == IF origin THEN <<0>> \o fps1 ELSE fps1
        tps == IF origin THEN <<0>> \o tps1 ELSE tps1
        thr == IF origin THEN <<thr1[1] + 1>> \o thr1 ELSE thr1
        n == Len(fps)
        no_neg == fps[n] <= 0
        no_pos == tps[n] <= 0
    IN  IF (no_neg \/ no_pos) /\ filter = "error"
        THEN Raise("UndefinedMetricWarning")
        ELSE [ok |-> TRUE,
              fpr |-> [k \in 1..n |-> IF no_neg THEN NaN ELSE Rat(fps[k], fps[n])],
              tpr |-> [k \in 1..n |-> IF no_pos THEN NaN ELSE Rat(tps[k], tps[n])],
              thresholds |-> thr]

\* sklearn.metrics.precision_recall_curve(y_true, probas_pred); the division
\* tps / tps[-1] is 0 / 0 when there is no positive: numpy warns
\* (RuntimeWarning: invalid value) and yields NaN
precision_recall_curve(y_true, probas_pred, filter) ==
    LET c == binary_clf_curve(y_true, probas_pred)
        n == Len(c.tps)
        precision == [k \in 1..n |-> Rat(c.tps[k], c.tps[k] + c.fps[k])]
        recall == [k \in 1..n |-> Rat(c.tps[k], c.tps[n])]
        last_ind == searchsorted(c.tps, c.tps[n])
        sl == [k \in 1..(last_ind + 1) |-> last_ind + 2 - k]
    IN  IF c.tps[n] = 0 /\ filter = "error"
        THEN Raise("RuntimeWarning")
        ELSE [ok |-> TRUE,
              precision |-> Take(precision, sl) \o <<Rat(1, 1)>>,
              recall |-> Take(recall, sl) \o <<Zero>>,
              thresholds |-> Take(c.thresholds, sl)]

\* np.trapz(y, x)
RECURSIVE trapz(_, _, _)
trapz(y, x, i) ==
    IF i >= Len(x) THEN Zero
    ELSE RAdd(RMul(RMul(RSub(x[i + 1], x[i]), RAdd(y[i + 1], y[i])), Rat(1, 2)),
              trapz(y, x, i + 1))

\* sklearn.metrics.auc(x, y): trapezoidal rule over x increasing or decreasing
sk_auc(x, y) ==
    IF Len(x) < 2 THEN Raise("ValueError")
    ELSE LET dx == [i \in 1..Len(x) - 1 |-> RSub(x[i + 1], x[i])]
             any_neg == \E i \in 1..Len(dx) : RLt(dx[i], Zero)
             all_nonpos == \A i \in 1..Len(dx) : RLe(dx[i], Zero)
         IN  IF any_neg /\ ~all_nonpos THEN Raise("ValueError")
             ELSE [ok |-> TRUE,
                   value |-> IF any_neg THEN RSub(Zero, trapz(y, x, 1))
                             ELSE trapz(y, x, 1)]

get_auc(fp, tp, adjusted) ==
    LET auc_val == sk_auc(fp, tp)
    IN  IF ~auc_val.ok THEN auc_val
        ELSE IF adjusted THEN [ok |-> TRUE, value |-> RSub(auc_val.value, Rat(1, 2))]
        ELSE auc_val

\* An exception leaves the function at the call that raised it: calls lists
\* the curve computations that were started.
roc_prc_auc_return(roc, auroc, prc, auprc) ==
    IF ~roc.ok THEN [ok |-> FALSE, err |-> roc.err, calls |-> <<"roc_curve">>]
    ELSE IF ~auroc.ok
    THEN [ok |-> FALSE, err |-> auroc.err, calls |-> <<"roc_curve">>]
    ELSE IF ~prc.ok
    THEN [ok |-> FALSE, err |-> prc.err,
          calls |-> <<"roc_curve", "precision_recall_curve">>]
    ELSE IF ~auprc.ok
    THEN [ok |-> FALSE, err |-> auprc.err,
          calls |-> <<"roc_curve", "precision_recall_curve">>]
    ELSE [ok |-> TRUE,
          roc |-> <<roc.fpr, roc.tpr, roc.thresholds>>,
          auroc |-> auroc.value,
          prc |-> <<prc.recall, prc.precision, prc.thresholds>>,
          auprc |-> auprc.value,
          calls |-> <<"roc_curve", "precision_recall_curve">>]

\* The two curves are bound as values (each is computed once) before the
\* areas are taken of them.
get_roc_prc_auc(true_false, metrics) ==
    CHOOSE r \in
        {roc_prc_auc_return(
             roc,
             IF roc.ok THEN get_auc(roc.fpr, roc.tpr, FALSE) ELSE roc,
             prc,
             IF prc.ok THEN get_auc(prc.recall, prc.precision, FALSE) ELSE prc) :
           roc \in {roc_curve(true_false, metrics, simplefilter_action)},
           prc \in {precision_recall_curve(true_false, metrics,
                                           simplefilter_action)}} : TRUE

LabelScores ==
    UNION {[true_false : [1..n -> {0, 1}], metrics : [1..n -> Scores]] :
              n \in 1..MaxSamples}

InitRoc ==
    /\ pc = "call"
    /\ fn = "get_roc_prc_auc"
    /\ args \in LabelScores
    /\ ret = None
    /\ archive = NoFile

Call_get_roc_prc_auc ==
    /\ pc = "call"
    /\ fn = "get_roc_prc_auc"
    /\ ret' = get_roc_prc_auc(args.true_false, args.metrics)
    /\ pc' = "done"
    /\ UNCHANGED <<fn, args, archive>>

NextRoc == Call_get_roc_prc_auc

SpecRoc == InitRoc /\ [][NextRoc]_vars

Degenerate(labels) == \E v \in {0, 1} : \A i \in 1..Len(labels) : labels[i] = v

\* C9: when the labels passed to get_roc_prc_auc are all 0 or all 1 the call
\* ends in an error and returns no curve and no AUC (so no NaN and no zero
\* result); the error is the one of the first curve computation, which is
\* started once and is followed by no other computation.
C9_DegenerateRaises ==
    (fn = "get_roc_prc_auc" /\ pc = "done" /\ Degenerate(args.true_false)) =>
        /\ ~ret.ok
        /\ ret.err = "UndefinedMetricWarning"
        /\ DOMAIN ret = {"ok", "err", "calls"}
        /\ ret.calls = <<"roc_curve">>

\* an all-negative label array with several distinct scores was rejected
C9_Witness ==
    /\ fn = "get_roc_prc_auc" /\ pc = "done"
    /\ Len(args.true_false) = 3
    /\ \A i \in 1..3 : args.true_false[i] = 0
    /\ Cardinality(Range(args.metrics)) = 3
    /\ ~ret.ok

\* Sanity of the curve model: a classifier that scores every positive above
\* every negative has auroc = auprc = 1.
Roc_PerfectClassifier ==
    (/\ fn = "get_roc_prc_auc" /\ pc = "done" /\ ~Degenerate(args.true_false)
     /\ \A i, j \in 1..Len(args.true_false) :
           (args.true_false[i] = 1 /\ args.true_false[j] = 0)
               => args.metrics[i] > args.metrics[j])
        => ret.ok /\ ret.auroc = Rat(1, 1) /\ ret.auprc = Rat(1, 1)

\* Sanity of the curve model: labels with both classes always yield curves,
\* with 0 <= auroc <= 1.
Roc_BothClasses ==
    (fn = "get_roc_prc_auc" /\ pc = "done" /\ ~Degenerate(args.true_false))
        => ret.ok /\ RLe(Zero, ret.auroc) /\ RLe(ret.auroc, Rat(1, 1))

(***************************************************************************)
(* Identifiers.  A molecule identifier or target key is a string, modelled *)
(* as the sequence of its character codes, so that sorted() can order      *)
(* identifiers as Python orders strings (lexicographically).               *)
(***************************************************************************)
\* "a", "ab", "b"
MolNames == {<<1>>, <<1, 2>>, <<2>>}
\* "a", "ab", "b"
TargetKeys == {<<1>>, <<1, 2>>, <<2>>}

\* a < b for Python strings
LexLess(a, b) ==
    \E i \in 1..(Len(a) + 1) :
        /\ \A j \in 1..(i - 1) : j <= Len(b) /\ a[j] = b[j]
        /\ i <= Len(b)
        /\ (i > Len(a) \/ a[i] < b[i])

\* the elements of S, largest first
RECURSIVE sorted_reverse(_)
sorted_reverse(S) ==
    IF S = {} THEN <<>>
    ELSE LET mx == CHOOSE x \in S : \A y \in S \ {x} : LexLess(y, x)
         IN  <<mx>> \o sorted_reverse(S \ {mx})

\* sorted(S) for a collection S of distinct strings
RECURSIVE sorted(_)
sorted(S) ==
    IF S = {} THEN <<>>
    ELSE LET mn == CHOOSE x \in S : \A y \in S \ {x} : LexLess(x, y)
         IN  <<mn>> \o sorted(S \ {mn})

\* duplicate-free sequences over S
DistinctSeqs(S) ==
    {q \in SeqsUpTo(S, Cardinality(S)) :
        \A i, j \in 1..Len(q) : i # j => q[i] # q[j]}

\* seacore.util.library.SetValue(name, cids, description)
SetValue(name, cids, description) ==
    [name |-> name, cids |-> cids, description |-> description]

\* d with d[k] = v
DictSet(d, k, v) ==
    [x \in DOMAIN d \cup {k} |-> IF x = k THEN v ELSE d[x]]

\* A matrix is [shape |-> <<nrows, ncols>>, val |-> entries], where val maps
\* each pair <<i, j>> of a 0-based row and column to the entry there.
Grid(nrows, ncols) == (0..nrows - 1) \X (0..ncols - 1)

\* the 0-based positions of the nonzero entries
Nonzero(m) == {ij \in DOMAIN m.val : m.val[ij] # 0}

(***************************************************************************)
(* targets_to_array                                                        *)
(***************************************************************************)
MaxTargets == 2

\* mol_inds = {x: i for i, x in enumerate(mol_list)} (the last position wins)
mol_inds_of(mol_list) ==
    [x \in Range(mol_list) |->
        CHOOSE i \in 0..Len(mol_list) - 1 :
            /\ mol_list[i + 1] = x
            /\ \A j \in (i + 1)..Len(mol_list) - 1 : mol_list[j + 1] # x]

\* a lookup that skips the names missing from mol_inds: mol_inds.get(...)
lookup_inds_skip_missing(mol_inds, cids) ==
    [ok |-> TRUE,
     inds |-> {mol_inds[cids[p]] : p \in {q \in 1..Len(cids) : cids[q] \in DOMAIN mol_inds}}]

\* inds = [mol_inds[mol_name] for mol_name in cids]: KeyError on a missing name
lookup_inds(mol_inds, cids) ==
    IF \E p \in 1..Len(cids) : cids[p] \notin DOMAIN mol_inds
    THEN Raise("KeyError")
    ELSE [ok |-> TRUE, inds |-> {mol_inds[cids[p]] : p \in 1..Len(cids)}]

targets_to_array(targets_dict, mol_list) ==
    LET target_list == sorted(DOMAIN targets_dict)
        target_num == Len(target_list)
        mol_num == Len(mol_list)
        mol_inds == mol_inds_of(mol_list)
        inds(i) == lookup_inds(mol_inds, targets_dict[target_list[i + 1]].cids)
    IN  IF \E i \in 0..target_num - 1 : ~inds(i).ok
        THEN Raise("KeyError")
        ELSE [ok |-> TRUE,
              array |-> [shape |-> <<target_num, mol_num>>,
                         val |-> [ij \in Grid(target_num, mol_num) |->
                                     IF ij[2] \in inds(ij[1]).inds THEN 1 ELSE 0]],
              target_list |-> target_list]

TargetValues ==
    {SetValue("name", cids, "description") : cids \in DistinctSeqs(MolNames)}

TargetDicts ==
    UNION {[K -> TargetValues] :
              K \in {S \in SUBSET TargetKeys : Cardinality(S) <= MaxTargets}}

(***************************************************************************)
(* molecules_to_array                                                      *)
(*                                                                         *)
(* A native tuple is the opaque encoding of one fingerprint; the helpers   *)
(* native_tuple_to_fprint and native_tuple_to_indices (e3fp_paper.pipeline *)
(* and e3fp_paper.sea_utils.util) give its bit width and the positions of  *)
(* its set bits.                                                           *)
(***************************************************************************)
FpBits == 2
MaxRows == 2
FpMols == {<<1>>, <<2>>}

NativeTuples ==
    {[bits |-> FpBits, indices |-> S] : S \in SUBSET (0..FpBits - 1)}

native_tuple_to_fprint(n) == [bits |-> n.bits]

\* the set bit positions, in increasing order
native_tuple_to_indices(n) == Ascending(n.indices)

\* [(i, j) for i, n in izip(row_inds, native_tuples)
\*         for j in native_tuple_to_indices(n)]
RECURSIVE index_pairs(_, _, _)
index_pairs(row_inds, native_tuples, p) ==
    IF p > Len(row_inds) \/ p > Len(native_tuples) THEN <<>>
    ELSE LET js == native_tuple_to_indices(native_tuples[p])
         IN  [q \in 1..Len(js) |-> <<row_inds[p], js[q]>>]
             \o index_pairs(row_inds, native_tuples, p + 1)

\* row_inds, col_inds = zip(*pairs): zip() of no arguments is the empty
\* list, which cannot be unpacked into two names
unzip_pairs(pairs) ==
    IF Len(pairs) = 0 THEN Raise("ValueError")
    ELSE [ok |-> TRUE,
          row_inds |-> [q \in 1..Len(pairs) |-> pairs[q][1]],
          col_inds |-> [q \in 1..Len(pairs) |-> pairs[q][2]]]

\* the loop of lines 84-94 from list position k (0-based) on; st holds
\* mol_indices_dict, max_ind, all_row_inds and all_col_inds
RECURSIVE fp_loop(_, _, _, _)
fp_loop(mol_list_dict, mol_list, k, st) ==
    IF k >= Len(mol_list) THEN st
    ELSE LET native_tuples == mol_list_dict[mol_list[k + 1]]
             fp_num == Len(native_tuples)
             row_inds == [p \in 1..fp_num |-> st.max_ind + p - 1]
             u == unzip_pairs(index_pairs(row_inds, native_tuples, 1))
         IN  IF ~u.ok THEN u
             ELSE fp_loop(mol_list_dict, mol_list, k + 1,
                          [ok |-> TRUE,
                           mol_indices_dict |-> DictSet(st.mol_indices_dict, k, row_inds),
                           max_ind |-> st.max_ind + fp_num,
                           all_row_inds |-> st.all_row_inds \o u.row_inds,
                           all_col_inds |-> st.all_col_inds \o u.col_inds])

\* lines 97-103: the dense array is set to True at the coordinates; the
\* csr_matrix constructor sums the entries given for one coordinate and
\* rejects a column index outside the shape
fp_array(st, bit_num, dense) ==
    LET n == Len(st.all_row_inds)
        count(i, j) == Cardinality({q \in 1..n : /\ st.all_row_inds[q] = i
                                                  /\ st.all_col_inds[q] = j})
    IN  IF \E q \in 1..n : st.all_col_inds[q] >= bit_num
        THEN Raise(IF dense THEN "IndexError" ELSE "ValueError")
        ELSE [ok |-> TRUE,
              all_fps |-> [shape |-> <<st.max_ind, bit_num>>,
                           val |-> [ij \in Grid(st.max_ind, bit_num) |->
                                       IF dense
                                       THEN (IF count(ij[1], ij[2]) > 0 THEN 1 ELSE 0)
                                       ELSE count(ij[1], ij[2])]],
              mol_indices_dict |-> st.mol_indices_dict]

\* first is the key whose value next(mol_list_dict.itervalues()) yields: the
\* iteration order of a dict is arbitrary
molecules_to_array(mol_list_dict, mol_list, dense, first) ==
    IF DOMAIN mol_list_dict # Range(mol_list) THEN Raise("AssertionError")
    ELSE IF DOMAIN mol_list_dict = {} THEN Raise("StopIteration")
    ELSE IF Len(mol_list_dict[first]) = 0 THEN Raise("IndexError")
    ELSE CHOOSE r \in
           {IF ~st.ok THEN st
            ELSE fp_array(st, native_tuple_to_fprint(mol_list_dict[first][1]).bits, dense) :
              st \in {fp_loop(mol_list_dict, mol_list, 0,
                              [ok |-> TRUE, mol_indices_dict |-> EmptyDict,
                               max_ind |-> 0, all_row_inds |-> <<>>,
                               all_col_inds |-> <<>>])}} : TRUE

RECURSIVE SumOver(_, _)
SumOver(f, K) ==
    IF K = {} THEN 0
    ELSE LET k == CHOOSE x \in K : TRUE IN f[k] + SumOver(f, K \ {k})

\* the dict over keys K that gives key k the next lens[k] elements of q
SplitDict(q, lens, K) ==
    [k \in K |->
        LET before == SumOver(lens, {x \in K : LexLess(x, k)})
        IN  SubSeq(q, before + 1, before + lens[k])]

\* {molecule_id: [native_tuple, ...]} with at most MaxRows fingerprints in all
MolListDicts ==
    UNION {UNION {{SplitDict(q, lens, K) :
                      lens \in {l \in [K -> 0..Len(q)] : SumOver(l, K) = Len(q)}} :
                  q \in SeqsUpTo(NativeTuples, MaxRows)} :
           K \in SUBSET FpMols}

InitArray ==
    /\ pc = "call"
    /\ \/ /\ fn = "targets_to_array"
          /\ args \in {[targets |-> t, mol_list |-> l] :
                          t \in TargetDicts, l \in DistinctSeqs(MolNames)}
       \/ /\ fn = "molecules_to_array"
          /\ args \in {[molecules |-> d, mol_list |-> l, dense |-> b] :
                          d \in MolListDicts, l \in DistinctSeqs(FpMols),
                          b \in BOOLEAN}
    /\ ret = None
    /\ archive = NoFile

Call_targets_to_array ==
    /\ pc = "call"
    /\ fn = "targets_to_array"
    /\ ret' = targets_to_array(args.targets, args.mol_list)
    /\ pc' = "done"
    /\ UNCHANGED <<fn, args, archive>>

Call_molecules_to_array ==
    /\ pc = "call"
    /\ fn = "molecules_to_array"
    /\ \E first \in (IF DOMAIN args.molecules = {} THEN {None}
                     ELSE DOMAIN args.molecules) :
          ret' = molecules_to_array(args.molecules, args.mol_list, args.dense, first)
    /\ pc' = "done"
    /\ UNCHANGED <<fn, args, archive>>

NextArray == Call_targets_to_array \/ Call_molecules_to_array

SpecArray == InitArray /\ [][NextArray]_vars

\* every cid of every target is a molecule of mol_list
CidsKnown(targets, mol_list) ==
    \A k \in DOMAIN targets : Range(targets[k].cids) \subseteq Range(mol_list)

\* C4: for a target mapping whose cids are all in molecule_list,
\* targets_to_array returns the target keys in sorted (lexicographic) order
\* and a matrix of shape (targets x molecules) whose entry (i, j) is nonzero
\* iff molecule_list[j] is in the cids of the target with the i-th sorted key.
C4_TargetArray ==
    (/\ fn = "targets_to_array" /\ pc = "done"
     /\ CidsKnown(args.targets, args.mol_list)) =>
        /\ ret.ok
        /\ Len(ret.target_list) = Cardinality(DOMAIN args.targets)
        /\ Range(ret.target_list) = DOMAIN args.targets
        /\ \A i, j \in 1..Len(ret.target_list) :
              i < j => LexLess(ret.target_list[i], ret.target_list[j])
        /\ ret.array.shape = <<Len(ret.target_list), Len(args.mol_list)>>
        /\ \A i \in 1..Len(ret.target_list), j \in 1..Len(args.mol_list) :
              (ret.array.val[<<i - 1, j - 1>>] # 0)
                  <=> (args.mol_list[j]
                          \in Range(args.targets[ret.target_list[i]].cids))

\* targets "b" and "ab" with different binders, over the molecule list
\* ["b", "a", "ab"]: row 0 is target "ab"
C4_Witness ==
    /\ fn = "targets_to_array" /\ pc = "done"
    /\ DOMAIN args.targets = {<<2>>, <<1, 2>>}
    /\ args.mol_list = <<<<2>>, <<1>>, <<1, 2>>>>
    /\ args.targets[<<1, 2>>].cids = <<<<1>>, <<2>>>>
    /\ args.targets[<<2>>].cids = <<<<1, 2>>>>
    /\ ret.ok
    /\ ret.target_list = <<<<1, 2>>, <<2>>>>
    /\ Nonzero(ret.array) = {<<0, 0>>, <<0, 1>>, <<1, 2>>}

\* C5: targets_to_array fails with a KeyError, returning no matrix, whenever
\* a target's cids holds an identifier that is not in molecule_list; and
\* molecules_to_array fails, returning no matrix, whenever the identifiers
\* of the fingerprint input are not exactly those of molecule_list.
C5_InputShapeFatal ==
    /\ (/\ fn = "targets_to_array" /\ pc = "done"
        /\ ~CidsKnown(args.targets, args.mol_list)) =>
           /\ ~ret.ok
           /\ ret.err = "KeyError"
           /\ DOMAIN ret = {"ok", "err"}
    /\ (/\ fn = "molecules_to_array" /\ pc = "done"
        /\ DOMAIN args.molecules # Range(args.mol_list)) =>
           /\ ~ret.ok
           /\ ret.err = "AssertionError"
           /\ DOMAIN ret = {"ok", "err"}

\* a target with one binder in the molecule list and one outside it
C5_Witness ==
    /\ fn = "targets_to_array" /\ pc = "done"
    /\ \E k \in DOMAIN args.targets :
          /\ Len(args.targets[k].cids) = 2
          /\ args.targets[k].cids[1] \in Range(args.mol_list)
          /\ args.targets[k].cids[2] \notin Range(args.mol_list)
    /\ ~ret.ok

\* the row of the first fingerprint of the molecule at list position k (0-based)
RECURSIVE FirstRow(_, _, _)
FirstRow(molecules, mol_list, k) ==
    IF k = 0 THEN 0
    ELSE FirstRow(molecules, mol_list, k - 1) + Len(molecules[mol_list[k]])

\* what C6 says of a returned matrix and row index map
FingerprintLayout(molecules, mol_list, r) ==
    /\ r.ok
    /\ r.all_fps.shape[1] = FirstRow(molecules, mol_list, Len(mol_list))
    /\ DOMAIN r.mol_indices_dict = 0..Len(mol_list) - 1
    /\ \A k \in 0..Len(mol_list) - 1 :
          LET recs == molecules[mol_list[k + 1]]
              rows == r.mol_indices_dict[k]
          IN  /\ Len(rows) = Len(recs)
              /\ \A p \in 1..Len(recs) :
                    /\ rows[p] = FirstRow(molecules, mol_list, k) + p - 1
                    /\ {j \in 0..r.all_fps.shape[2] - 1 :
                           r.all_fps.val[<<rows[p], j>>] # 0} = recs[p].indices

\* C6: for every input whose molecule identifiers are those of
\* molecule_list, including molecules whose records have no set bit or that
\* have no record, molecules_to_array returns a matrix with one row per
\* record, molecule by molecule in list order, whose nonzero columns are the
\* record's set bits, and a row index map sending list index k to the
\* consecutive rows of molecule k.
C6_FingerprintArray ==
    (/\ fn = "molecules_to_array" /\ pc = "done"
     /\ DOMAIN args.molecules = Range(args.mol_list)) =>
        FingerprintLayout(args.molecules, args.mol_list, ret)

\* The layout C6 describes is what the code returns when every molecule has
\* a set bit in at least one of its records.
MolArray_WhenEveryMoleculeHasASetBit ==
    (/\ fn = "molecules_to_array" /\ pc = "done"
     /\ DOMAIN args.molecules = Range(args.mol_list)
     /\ args.mol_list # <<>>
     /\ \A m \in DOMAIN args.molecules :
           \E p \in 1..Len(args.molecules[m]) : args.molecules[m][p].indices # {}) =>
        FingerprintLayout(args.molecules, args.mol_list, ret)

\* two molecules with one record each were laid out in list order, "b" first
MolArray_Witness ==
    /\ fn = "molecules_to_array" /\ pc = "done"
    /\ args.mol_list = <<<<2>>, <<1>>>>
    /\ DOMAIN args.molecules = {<<1>>, <<2>>}
    /\ Len(args.molecules[<<2>>]) = 1
    /\ Len(args.molecules[<<1>>]) = 1
    /\ args.molecules[<<2>>][1].indices = {1}
    /\ args.molecules[<<1>>][1].indices = {0, 1}
    /\ ret.ok
    /\ ret.mol_indices_dict[1] = <<1>>
    /\ Nonzero(ret.all_fps) = {<<0, 1>>, <<1, 0>>, <<1, 1>>}

(***************************************************************************)
(* train_test_dicts_from_mask                                              *)
(*                                                                         *)
(* train_test_mask is a list of rows, one per target of target_list, each  *)
(* a list with one value of {-1, 0, 1} per molecule of mol_list.           *)
(***************************************************************************)
MaxFoldMols == 2
\* "a", "b"
FoldTargetKeys == {<<1>>, <<2>>}

\* np.where(np.all(train_test_mask == v, axis=0))[0]
where_all(train_test_mask, ncols, v) ==
    {j \in 0..ncols - 1 :
        \A i \in 1..Len(train_test_mask) : train_test_mask[i][j + 1] = v}

\* np.where(np.any(train_test_mask == v, axis=0))[0]: the 0-based columns
\* that hold v in at least one row
where_any(train_test_mask, ncols, v) ==
    {j \in 0..ncols - 1 :
        \E i \in 1..Len(train_test_mask) : train_test_mask[i][j + 1] = v}

\* np.where(train_test_mask[i, :] == v)[0] for the 0-based row i
where_row(train_test_mask, i, v) ==
    {j \in 0..Len(train_test_mask[i + 1]) - 1 : train_test_mask[i + 1][j + 1] = v}

\* {x: mol_list_dict[x] for i, x in enumerate(mol_list) if i in inds}
sub_mol_list_dict(mol_list_dict, mol_list, inds) ==
    [x \in {mol_list[i + 1] : i \in inds \cap (0..Len(mol_list) - 1)} |->
        mol_list_dict[x]]

\* train positives taken from the molecules the row marks -1
train_cids_masked(pos_mols, test_mols, train_mols) ==
    sorted(pos_mols \cap train_mols)

\* sorted(pos_mols.difference(test_mols))
train_cids(pos_mols, test_mols, train_mols) == sorted(pos_mols \ test_mols)

\* sorted(pos_mols.intersection(test_mols))
test_cids(pos_mols, test_mols) == sorted(pos_mols \cap test_mols)

train_test_dicts_from_mask(mol_list_dict, mol_list, target_dict, target_list, train_test_mask) ==
    LET test_inds == where_any(train_test_mask, Len(mol_list), 1)
        train_inds == where_any(train_test_mask, Len(mol_list), 0 - 1)
        row_of(key) == CHOOSE i \in 0..Len(target_list) - 1 :
                           /\ target_list[i + 1] = key
                           /\ \A i2 \in (i + 1)..Len(target_list) - 1 :
                                 target_list[i2 + 1] # key
        mols(i, v) == {mol_list[j + 1] : j \in where_row(train_test_mask, i, v)}
        sv(key) == target_dict[key]
    IN  [train_mol_list_dict |->
             sub_mol_list_dict(mol_list_dict, mol_list, train_inds),
         train_target_dict |->
             [key \in Range(target_list) |->
                 SetValue(sv(key).name,
                          train_cids(Range(sv(key).cids), mols(row_of(key), 1),
                                     mols(row_of(key), 0 - 1)),
                          sv(key).description)],
         test_mol_list_dict |->
             sub_mol_list_dict(mol_list_dict, mol_list, test_inds),
         test_target_dict |->
             [key \in Range(target_list) |->
                 SetValue(sv(key).name,
                          test_cids(Range(sv(key).cids), mols(row_of(key), 1)),
                          sv(key).description)]]

\* the fingerprints of a molecule: different for different molecules
FoldFingerprints(x) ==
    [p \in 1..Len(x) |-> [bits |-> FpBits, indices |-> {x[p] - 1}]]

\* the binders of a target: none, "a", "a" and "ab", or all three molecules
\* (the molecule list is any duplicate-free list, so each may be in it or not)
FoldCids == {{}, {<<1>>}, {<<1>>, <<1, 2>>}, MolNames}

FoldTargetValues ==
    {SetValue("name", sorted(S), "description") : S \in FoldCids}

Masks(nrows, ncols) == [1..nrows -> [1..ncols -> {0 - 1, 0, 1}]]

\* every order of the keys of a dict
KeyOrders(d) == {q \in DistinctSeqs(DOMAIN d) : Range(q) = DOMAIN d}

\* every molecule list, every target dict, every order of its keys and every
\* mask of the shape they give
InitSplit ==
    /\ pc = "call"
    /\ fn = "train_test_dicts_from_mask"
    /\ \E mol_list \in {q \in DistinctSeqs(MolNames) : Len(q) <= MaxFoldMols},
          td \in Dicts(FoldTargetKeys, FoldTargetValues) :
          \E tl \in KeyOrders(td) :
             \E mask \in Masks(Len(tl), Len(mol_list)) :
                args = [mol_list_dict |-> [x \in Range(mol_list) |-> FoldFingerprints(x)],
                        mol_list |-> mol_list,
                        target_dict |-> td,
                        target_list |-> tl,
                        train_test_mask |-> mask]
    /\ ret = None
    /\ archive = NoFile

Call_train_test_dicts_from_mask ==
    /\ pc = "call"
    /\ fn = "train_test_dicts_from_mask"
    /\ ret' = train_test_dicts_from_mask(args.mol_list_dict, args.mol_list,
                                         args.target_dict, args.target_list,
                                         args.train_test_mask)
    /\ pc' = "done"
    /\ UNCHANGED <<fn, args, archive>>

NextSplit == Call_train_test_dicts_from_mask

SpecSplit == InitSplit /\ [][NextSplit]_vars

\* the molecules that row i (1-based) of the mask marks with v
Marked(i, v) ==
    {args.mol_list[j] : j \in {c \in 1..Len(args.mol_list) :
                                  args.train_test_mask[i][c] = v}}

\* C1: for every target key (row i of the mask) the test cids are the
\* molecules with mask[i, j] = 1 intersected with the target's original cids
\* and the train cids are the original cids minus the molecules with
\* mask[i, j] = 1, whatever their mask value; so test and train cids are
\* disjoint and their union is the original cids.
C1_SplitCids ==
    (fn = "train_test_dicts_from_mask" /\ pc = "done") =>
        /\ DOMAIN ret.test_target_dict = Range(args.target_list)
        /\ DOMAIN ret.train_target_dict = Range(args.target_list)
        /\ \A i \in 1..Len(args.target_list) :
              LET key == args.target_list[i]
                  orig == Range(args.target_dict[key].cids)
                  test == Range(ret.test_target_dict[key].cids)
                  train == Range(ret.train_target_dict[key].cids)
              IN  /\ test = Marked(i, 1) \cap orig
                  /\ train = orig \ Marked(i, 1)
                  /\ test \cap train = {}
                  /\ test \cup train = orig

\* a target that binds a molecule marked 1, a molecule marked 0 and a
\* molecule outside the molecule list, while the other target does not bind
\* the molecule marked 1 in its row
C1_Witness ==
    /\ fn = "train_test_dicts_from_mask" /\ pc = "done"
    /\ Len(args.target_list) = 2
    /\ Len(args.mol_list) = 2
    /\ LET key == args.target_list[2]
           orig == Range(args.target_dict[key].cids)
       IN  /\ args.train_test_mask[2] = <<1, 0>>
           /\ args.train_test_mask[1] = <<1, 0 - 1>>
           /\ orig = MolNames
           /\ args.mol_list[1] \notin Range(args.target_dict[args.target_list[1]].cids)
           /\ Range(ret.test_target_dict[key].cids) = {args.mol_list[1]}
           /\ Range(ret.train_target_dict[key].cids) = MolNames \ {args.mol_list[1]}

\* the molecules whose mask column holds v in some row
MarkedAnywhere(v) ==
    {args.mol_list[j] : j \in {c \in 1..Len(args.mol_list) :
                                  \E i \in 1..Len(args.train_test_mask) :
                                      args.train_test_mask[i][c] = v}}

\* C2: the keys of the test fingerprint map are the molecules whose mask
\* column holds a 1 in some row, the keys of the train fingerprint map those
\* whose column holds a -1 in some row (a column with both is in both maps, an
\* all-0 column in neither), and each kept molecule maps to its input records.
C2_SplitFingerprints ==
    (fn = "train_test_dicts_from_mask" /\ pc = "done") =>
        /\ DOMAIN ret.test_mol_list_dict = MarkedAnywhere(1)
        /\ DOMAIN ret.train_mol_list_dict = MarkedAnywhere(0 - 1)
        /\ \A x \in DOMAIN ret.test_mol_list_dict :
              ret.test_mol_list_dict[x] = args.mol_list_dict[x]
        /\ \A x \in DOMAIN ret.train_mol_list_dict :
              ret.train_mol_list_dict[x] = args.mol_list_dict[x]

\* one molecule is test for one target and train for the other, and the
\* other molecule is unused by both
C2_Witness ==
    /\ fn = "train_test_dicts_from_mask" /\ pc = "done"
    /\ args.mol_list = <<<<2>>, <<1, 2>>>>
    /\ args.train_test_mask = <<<<0, 1>>, <<0, 0 - 1>>>>
    /\ DOMAIN ret.test_mol_list_dict = {<<1, 2>>}
    /\ DOMAIN ret.train_mol_list_dict = {<<1, 2>>}
    /\ ret.test_mol_list_dict[<<1, 2>>] = FoldFingerprints(<<1, 2>>)

(***************************************************************************)
(* save_fprints_arr, load_fprints_arr                                      *)
(*                                                                         *)
(* A dense array is [format |-> "dense", shape, val, dtype] with val as in *)
(* a matrix above.  A scipy CSR matrix is [format |-> "csr", shape,        *)
(* indptr, indices, data, dtype]: row i (0-based) stores the entries       *)
(* data[p] at columns indices[p] for indptr[i] <= p < indptr[i + 1].  A    *)
(* CSR matrix may store an entry whose value is 0.                         *)
(***************************************************************************)
MaxDim == 2

PyNone == [py |-> "None"]
PyDict(d) == [py |-> "dict", items |-> d]

issparse(arr) == arr.format # "dense"

\* f[lo] \o f[lo + 1] \o ... \o f[hi - 1]
RECURSIVE ConcatRange(_, _, _)
ConcatRange(f, lo, hi) ==
    IF lo >= hi THEN <<>> ELSE f[lo] \o ConcatRange(f, lo + 1, hi)

\* the CSR matrix of the given shape that stores exactly the cells of the
\* set stored, with the values val gives them, columns increasing in a row
CsrOfCells(shape, stored, val, dtype) ==
    LET cols == [i \in 0..shape[1] - 1 |->
                    Ascending({j \in 0..shape[2] - 1 : <<i, j>> \in stored})]
        cells == [i \in 0..shape[1] - 1 |->
                     [q \in 1..Len(cols[i]) |-> <<i, cols[i][q]>>]]
        all == ConcatRange(cells, 0, shape[1])
    IN  [format |-> "csr",
         shape |-> shape,
         indptr |-> [r \in 1..shape[1] + 1 |-> Len(ConcatRange(cells, 0, r - 1))],
         indices |-> [q \in 1..Len(all) |-> all[q][2]],
         data |-> [q \in 1..Len(all) |-> val[all[q]]],
         dtype |-> dtype]

\* scipy.sparse.csr_matrix(arr) for a dense 2-D array: the nonzero entries
csr_matrix(arr) ==
    CsrOfCells(arr.shape, {ij \in DOMAIN arr.val : arr.val[ij] # 0}, arr.val,
               arr.dtype)

\* the stored entries of the 0-based row i of a CSR matrix, as positions of
\* indices / data (1-based)
RowEntries(m, i) == (m.indptr[i + 1] + 1)..m.indptr[i + 2]

\* csr_matrix.toarray(): entries stored for the same cell are summed
toarray(m) ==
    [format |-> "dense",
     shape |-> m.shape,
     val |-> [ij \in Grid(m.shape[1], m.shape[2]) |->
                 LET ps == {p \in RowEntries(m, ij[1]) : m.indices[p] = ij[2]}
                 IN  IF ps = {} THEN 0
                     ELSE SumOver(m.data, ps)],
     dtype |-> m.dtype]

\* np.ones(n)
np_ones(n) == [q \in 1..n |-> 1]

\* the arrays np.savez writes: every value of kwargs becomes an array, a
\* one-element list a one-element array
save_fprints_arr(arr0, mol_indices) ==
    LET arr == IF ~issparse(arr0) THEN csr_matrix(arr0) ELSE arr0
    IN  [dtype |-> <<arr.dtype>>,
         indices |-> arr.indices,
         indptr |-> arr.indptr,
         shape |-> arr.shape,
         ndata |-> <<Len(arr.data)>>,
         mol_indices |-> <<mol_indices>>]

load_fprints_arr(f, dense) ==
    LET dtype == f.dtype[1]
        ndata == f.ndata[1]
        m == [format |-> "csr", shape |-> f.shape, indptr |-> f.indptr,
              indices |-> f.indices, data |-> np_ones(ndata), dtype |-> dtype]
    IN  IF dense THEN <<toarray(m), f.mol_indices[1]>>
        ELSE <<m, f.mol_indices[1]>>

\* the 0-based positions of the nonzero entries of a dense array or of a CSR
\* matrix (matrix.nonzero())
NonzeroPositions(m) ==
    IF m.format = "dense" THEN {ij \in DOMAIN m.val : m.val[ij] # 0}
    ELSE {ij \in Grid(m.shape[1], m.shape[2]) :
             \E p \in RowEntries(m, ij[1]) : m.indices[p] = ij[2] /\ m.data[p] # 0}

Shapes == (1..MaxDim) \X (1..MaxDim)

\* a dense 0/1 array, or a CSR matrix in which each cell is not stored,
\* stored with value 0 or stored with value 1
DenseArrays(shape) ==
    {[format |-> "dense", shape |-> shape, val |-> v, dtype |-> "int8"] :
        v \in [Grid(shape[1], shape[2]) -> {0, 1}]}

CsrMatrices(shape) ==
    {CsrOfCells(shape, {ij \in DOMAIN c : c[ij] # "none"},
                [ij \in DOMAIN c |-> IF c[ij] = "one" THEN 1 ELSE 0], "int8") :
        c \in [Grid(shape[1], shape[2]) -> {"none", "zero", "one"}]}

\* row index maps: none, one molecule with two rows, two molecules
RowIndexMaps ==
    {PyNone,
     PyDict([k \in {0} |-> <<0, 1>>]),
     PyDict([k \in {0, 1} |-> IF k = 0 THEN <<0>> ELSE <<1>>])}

InitCodec ==
    /\ pc = "call"
    /\ fn = "save_fprints_arr"
    /\ \E shape \in Shapes :
          \E arr \in DenseArrays(shape) \cup CsrMatrices(shape),
             mol_indices \in RowIndexMaps :
             args = [arr |-> arr, mol_indices |-> mol_indices]
    /\ ret = None
    /\ archive = NoFile

\* save_fprints_arr writes the archive and returns None
Call_save_fprints_arr ==
    /\ pc = "call"
    /\ fn = "save_fprints_arr"
    /\ archive' = save_fprints_arr(args.arr, args.mol_indices)
    /\ pc' = "saved"
    /\ UNCHANGED <<fn, args, ret>>

\* load_fprints_arr reads the archive that was written; args keeps the
\* arguments of the save and gains the dense flag of the load
Call_load_fprints_arr ==
    /\ pc = "saved"
    /\ \E dense \in BOOLEAN :
          /\ ret' = load_fprints_arr(archive, dense)
          /\ args' = [arr |-> args.arr, mol_indices |-> args.mol_indices,
                      dense |-> dense]
    /\ fn' = "load_fprints_arr"
    /\ pc' = "done"
    /\ UNCHANGED archive

NextCodec == Call_save_fprints_arr \/ Call_load_fprints_arr

SpecCodec == InitCodec /\ [][NextCodec]_vars

\* what C3 says of the loaded pair
RoundTrip ==
    /\ ret[1].shape = args.arr.shape
    /\ NonzeroPositions(ret[1]) = NonzeroPositions(args.arr)
    /\ ret[2] = args.mol_indices

\* the matrix stores no entry whose value is 0 (a dense array stores nothing)
NoStoredZero(arr) ==
    issparse(arr) => \A p \in 1..Len(arr.data) : arr.data[p] # 0

\* C3: for every matrix M and row index map R passed to save_fprints_arr,
\* load_fprints_arr on the saved archive returns a matrix of the same shape
\* and with the same nonzero positions as M, and a row index map identical
\* to R.  Violated: an entry M stores with value 0 is loaded as a 1.
C3_RoundTripEveryMatrix ==
    (fn = "load_fprints_arr" /\ pc = "done") => RoundTrip

\* The round trip is exact for every dense array and for every CSR matrix
\* that stores no zero entry.
Codec_RoundTripNoStoredZero ==
    (fn = "load_fprints_arr" /\ pc = "done" /\ NoStoredZero(args.arr)) => RoundTrip

\* a 2 x 2 CSR matrix with entries in both rows was saved with a row index
\* map and loaded
Codec_Witness ==
    /\ fn = "load_fprints_arr" /\ pc = "done"
    /\ args.arr.format = "csr"
    /\ NoStoredZero(args.arr)
    /\ args.arr.shape = <<2, 2>>
    /\ NonzeroPositions(args.arr) = {<<0, 1>>, <<1, 0>>, <<1, 1>>}
    /\ args.mol_indices.py = "dict"
    /\ ~args.dense
    /\ NonzeroPositions(ret[1]) = {<<0, 1>>, <<1, 0>>, <<1, 1>>}

=============================================================================
